---- MODULE Spec2Model ----
(***************************************************************************)
(* UpgradeMessageView                                                      *)
(* (lms/static/js/learner_dashboard/views/upgrade_message_view.js).        *)
(*                                                                         *)
(* A Backbone view that picks one of two templates from a construction     *)
(* option, renders the template over {mock defaults + model attributes}    *)
(* into its mount point and registers the upsell buttons it finds there    *)
(* with the e-commerce click tracking.                                     *)
(*                                                                         *)
(* JavaScript values are written as the text of their literal ("true",     *)
(* "'$39'", "7", "undefined"), so that values of different JavaScript      *)
(* types can sit in one attribute map.  An object is a function from the   *)
(* keys it owns to their values; reading a key it does not own yields      *)
(* undefined (Get).                                                        *)
(*                                                                         *)
(* JavaScript runs a handler to completion, so initialize() and render()   *)
(* are one action each.  Each is the composition, in source order, of one  *)
(* operator per statement; every operator appends its name to `trace`,     *)
(* the record of the steps of the handler that ran last.                   *)
(***************************************************************************)
EXTENDS Naturals, Sequences, FiniteSets

\* ------------------------------------------------------------------ bounds

\* Largest number of upsell buttons in one template's markup.
MaxButtons == 1
\* Largest number of render() runs (the one in initialize included).
MaxRenders == 3
\* Largest number of attribute changes the host makes to the model.
MaxModelChanges == 2

\* ------------------------------------------------------------- JS values

Undefined == "undefined"

\* JavaScript truthiness of a literal (the test of `if (x)`).
Truthy(v) == v \notin {"false", "undefined", "null", "0", "''"}

\* obj[k]: the value of an own key, undefined for a key the object lacks.
Get(obj, k) == IF k \in DOMAIN obj THEN obj[k] ELSE Undefined

EmptyObject == [k \in {} |-> Undefined]

\* ---------------------------------------------------------- the templates

SubscriptionTpl == "upgrade_message_subscription.underscore"
UpgradeTpl == "upgrade_message.underscore"
NoTpl == "unset"
\* What the mount point holds before the view is built (host page markup).
PreviousContent == "previous content"

Templates == {SubscriptionTpl, UpgradeTpl}

\* ------------------------------------------------------------- the model

DefaultKeys == {"is_eligible_for_subscription", "subscription_state",
                "subscription_price", "trial_length"}
\* A model attribute that is none of the four mock defaults.
OtherKeys == {"course_title"}
Keys == DefaultKeys \cup OtherKeys

\* The values the host gives an attribute.  A Backbone attribute may hold
\* undefined (model.set(k, undefined) keeps the key).
ModelValues(k) ==
    CASE k = "is_eligible_for_subscription" -> {"false", Undefined}
      [] k = "subscription_state" -> {"'inactive'"}
      [] k = "subscription_price" -> {"'$99'"}
      [] k = "trial_length" -> {"14"}
      [] OTHER -> {"'Intro'", Undefined}

AllValues == UNION {ModelValues(k) : k \in Keys}

Attributes ==
    {f \in UNION {[D -> AllValues] : D \in SUBSET Keys} :
        \A k \in DOMAIN f : f[k] \in ModelValues(k)}

\* this.model: a Backbone model, or undefined when the host passed none.
NoModel == [defined |-> FALSE, attributes |-> EmptyObject]
Models == {NoModel} \cup {[defined |-> TRUE, attributes |-> a] : a \in Attributes}

\* ---------------------------------------------------------------- the DOM

\* options.$el, and the detached <div> Backbone.View gives this.$el before
\* initialize() runs (the options carry `$el`, not `el`).
Mount == "options.$el"
Detached == "detached div"
Handles == {Mount, Detached}

VARIABLES
    options,       \* the options record handed to the constructor
    model,         \* this.model
    buttonsIn,     \* template -> number of upsell buttons in its markup
    messageTpl,    \* this.messageTpl
    el,            \* this.$el
    dom,           \* handle -> content: a sequence of markup fragments
    tracked,       \* the calls of trackECommerceEvents.trackUpsellClick
    listeners,     \* handlers the view has bound to the model's change event
    renderCount,   \* number of times render() was entered
    trace,         \* steps of the handler that ran last
    status,        \* "unconstructed" | "constructed" | "failed"
    modelChanges   \* number of attribute changes made by the host

vars == <<options, model, buttonsIn, messageTpl, el, dom, tracked, listeners,
          renderCount, trace, status, modelChanges>>

\* ------------------------------------------------------ the collaborators

\* Variant of Defaults: the flag's default follows the construction option.
Defaults_fromOption ==
    [k \in DefaultKeys |->
        CASE k = "is_eligible_for_subscription" ->
                 options.is_eligible_for_subscription
          [] k = "subscription_state" -> "'active'"
          [] k = "subscription_price" -> "'$39'"
          [] OTHER -> "7"]

\* The mock record of render(), built anew by the object literal on each call.
Defaults ==
    [k \in DefaultKeys |->
        CASE k = "is_eligible_for_subscription" -> "true"
          [] k = "subscription_state" -> "'active'"
          [] k = "subscription_price" -> "'$39'"
          [] OTHER -> "7"]

\* Variant of extend: the arguments the other way round, so that a key of
\* the target (the defaults) wins over the same key of the source (the model).
extend_targetWins(target, source) ==
    LET copied == {k \in DOMAIN source : source[k] # Undefined}
    IN  [k \in DOMAIN target \cup copied |->
            IF k \in DOMAIN target THEN target[k] ELSE source[k]]

\* jQuery's $.extend(target, source), shallow: every own key of source whose
\* value is not undefined is copied onto target; the other keys of target stay.
extend(target, source) ==
    LET copied == {k \in DOMAIN source : source[k] # Undefined}
    IN  [k \in DOMAIN target \cup copied |->
            IF k \in copied THEN source[k] ELSE target[k]]

\* Backbone.Model.toJSON(): a shallow copy of the attributes.
toJSON(m) == [k \in DOMAIN m.attributes |-> m.attributes[k]]

\* this.messageTpl(data): the markup of template tpl over data.  The nodes
\* it becomes once in the document are new ones, told apart by gen, the
\* number of the render that made them.
applyTpl(tpl, data, gen) ==
    [tpl |-> tpl, data |-> data, gen |-> gen, buttons |-> buttonsIn[tpl]]

\* Variant of setHtml: the markup is appended to what the element holds.
setHtml_append(d, element, html) == [d EXCEPT ![element] = Append(@, html)]

\* HtmlUtils.setHtml(element, html): the element's content becomes html.
setHtml(d, element, html) == [d EXCEPT ![element] = <<html>>]

\* The markup of a fragment, without the identity of its nodes.
Markup(fragment) == [tpl |-> fragment.tpl, data |-> fragment.data]
Html(content) == [i \in 1..Len(content) |-> Markup(content[i])]

\* The elements of one fragment matching .program_dashboard_course_upsell_button
ButtonsOf(fragment) ==
    {[gen |-> fragment.gen, idx |-> i] : i \in 1..fragment.buttons}

\* element.find('.program_dashboard_course_upsell_button')
find(d, element) == UNION {ButtonsOf(d[element][i]) : i \in 1..Len(d[element])}

EventCategory == "program_dashboard_course"
EventContext ==
    [linkType |-> "button", pageName |-> "program_dashboard",
     linkCategory |-> "green_upgrade"]

\* trackECommerceEvents.trackUpsellClick(elements, category, context): only
\* the call is recorded; the click listeners it attaches run later, if ever.
trackUpsellClick(calls, elements, category, context) ==
    Append(calls, [elements |-> elements, category |-> category,
                   context |-> context])

\* ---------------------------------------------------------------- the view

\* The state a handler works on, threaded through its statements.  thrown
\* is set by a statement that raises; the statements after it do not run.
Cur(handler) ==
    [model |-> model, messageTpl |-> messageTpl, el |-> el, dom |-> dom,
     tracked |-> tracked, listeners |-> listeners,
     renderCount |-> renderCount, trace |-> <<handler>>, thrown |-> FALSE]

\* Variant of render: an absent model is read as an empty one.
render_fallback(s) ==
    LET entered == [s EXCEPT !.renderCount = @ + 1,
                             !.trace = Append(@, "render")]
        source == IF s.model.defined THEN toJSON(s.model) ELSE EmptyObject
        data == extend(Defaults, source)
        html == applyTpl(s.messageTpl, data, entered.renderCount)
    IN  [entered EXCEPT !.dom = setHtml(@, s.el, html),
                        !.trace = @ \o <<"extend", "setHtml">>]

\* Variant of render: the template is picked again from the merged data.
render_reselect(s) ==
    LET entered == [s EXCEPT !.renderCount = @ + 1,
                             !.trace = Append(@, "render")]
    IN  IF ~s.model.defined
        THEN [entered EXCEPT !.thrown = TRUE, !.trace = Append(@, "TypeError")]
        ELSE LET data == extend(Defaults, toJSON(s.model))
                 tpl == IF Truthy(data["is_eligible_for_subscription"])
                        THEN SubscriptionTpl ELSE UpgradeTpl
                 html == applyTpl(tpl, data, entered.renderCount)
             IN  [entered EXCEPT
                    !.messageTpl = tpl,
                    !.dom = setHtml(@, s.el, html),
                    !.trace = @ \o <<"extend", "setHtml">>]

\* Variant of render: the buttons are queried and registered by render.
render_retrack(s) ==
    LET entered == [s EXCEPT !.renderCount = @ + 1,
                             !.trace = Append(@, "render")]
    IN  IF ~s.model.defined
        THEN [entered EXCEPT !.thrown = TRUE, !.trace = Append(@, "TypeError")]
        ELSE LET data == extend(Defaults, toJSON(s.model))
                 html == applyTpl(s.messageTpl, data, entered.renderCount)
                 written == setHtml(s.dom, s.el, html)
             IN  [entered EXCEPT
                    !.dom = written,
                    !.tracked = trackUpsellClick(@, find(written, s.el),
                                                 EventCategory, EventContext),
                    !.trace = @ \o <<"extend", "setHtml">>]

\* render(), lines 27-36.  `this.model.toJSON()` is evaluated as an argument
\* of $.extend, so an undefined this.model raises a TypeError before the
\* merge and before anything is written.
render(s) ==
    LET entered == [s EXCEPT !.renderCount = @ + 1,
                             !.trace = Append(@, "render")]
    IN  IF ~s.model.defined
        THEN [entered EXCEPT !.thrown = TRUE, !.trace = Append(@, "TypeError")]
        ELSE LET data == extend(Defaults, toJSON(s.model))
                 html == applyTpl(s.messageTpl, data, entered.renderCount)
             IN  [entered EXCEPT
                    !.dom = setHtml(@, s.el, html),
                    !.trace = @ \o <<"extend", "setHtml">>]

\* Variant of selectTemplate: the flag is read from the model's attributes
\* over the defaults, as render's data has it.
selectTemplate_fromModel(s, opts) ==
    [s EXCEPT !.messageTpl =
                 IF Truthy(Get(extend(Defaults, s.model.attributes),
                               "is_eligible_for_subscription"))
                 THEN SubscriptionTpl ELSE UpgradeTpl,
              !.trace = Append(@, "template")]

\* Lines 11-15: the template is chosen from the option alone.
selectTemplate(s, opts) ==
    [s EXCEPT !.messageTpl = IF Truthy(opts.is_eligible_for_subscription)
                             THEN SubscriptionTpl ELSE UpgradeTpl,
              !.trace = Append(@, "template")]

\* Line 16: this.$el = options.$el
storeEl(s, opts) == [s EXCEPT !.el = opts.el, !.trace = Append(@, "$el")]

\* Variant of trackButtons: nothing is registered when no button is found.
trackButtons_skipEmpty(s) ==
    LET courseUpsellButtons == find(s.dom, s.el)
    IN  IF courseUpsellButtons = {}
        THEN [s EXCEPT !.trace = Append(@, "find")]
        ELSE [s EXCEPT !.tracked = trackUpsellClick(@, courseUpsellButtons,
                                                    EventCategory, EventContext),
                       !.trace = @ \o <<"find", "trackUpsellClick">>]

\* Lines 19-24: query the mount point, register what was found.
trackButtons(s) ==
    LET courseUpsellButtons == find(s.dom, s.el)
    IN  [s EXCEPT !.tracked = trackUpsellClick(@, courseUpsellButtons,
                                               EventCategory, EventContext),
                  !.trace = @ \o <<"find", "trackUpsellClick">>]

\* Variant of initialize: the buttons are queried before render has run.
initialize_trackFirst(s, opts) ==
    LET tracking == trackButtons(storeEl(selectTemplate(s, opts), opts))
    IN  render(tracking)

\* Variant of initialize: the view also binds render to the model's change
\* event (this.listenTo(this.model, 'change', this.render)).
initialize_listen(s, opts) ==
    LET rendered == render(storeEl(selectTemplate(s, opts), opts))
    IN  IF rendered.thrown THEN rendered
        ELSE [trackButtons(rendered) EXCEPT !.listeners = {"render"}]

\* initialize(options), lines 10-25.
initialize(s, opts) ==
    LET rendered == render(storeEl(selectTemplate(s, opts), opts))
    IN  IF rendered.thrown THEN rendered ELSE trackButtons(rendered)

\* Backbone delivers a model's change event to the handlers bound to it;
\* the only handler a view of this file could bind is its render.
trigger(s) == IF "render" \in s.listeners THEN render(s) ELSE s

\* ------------------------------------------------------------------ actions

Commit(s) ==
    /\ model' = s.model
    /\ messageTpl' = s.messageTpl
    /\ el' = s.el
    /\ dom' = s.dom
    /\ tracked' = s.tracked
    /\ listeners' = s.listeners
    /\ renderCount' = s.renderCount
    /\ trace' = s.trace

Previous == [tpl |-> PreviousContent, data |-> EmptyObject, gen |-> 0,
             buttons |-> MaxButtons]

Init ==
    /\ options \in [is_eligible_for_subscription : {"true", "false"},
                    el : {Mount}]
    /\ model \in Models
    /\ buttonsIn \in [Templates -> 0..MaxButtons]
    /\ messageTpl = NoTpl
    /\ el = Detached
    /\ dom = [h \in Handles |-> IF h = Mount THEN <<Previous>> ELSE <<>>]
    /\ tracked = <<>>
    /\ listeners = {}
    /\ renderCount = 0
    /\ trace = <<>>
    /\ status = "unconstructed"
    /\ modelChanges = 0

\* new UpgradeMessageView(options): Backbone runs initialize(options).
Construct ==
    /\ status = "unconstructed"
    /\ LET s == initialize(Cur("initialize"), options)
       IN  /\ Commit(s)
           /\ status' = IF s.thrown THEN "failed" ELSE "constructed"
    /\ UNCHANGED <<options, buttonsIn, modelChanges>>

\* A caller invokes view.render().
Render ==
    /\ status = "constructed"
    /\ renderCount < MaxRenders
    /\ Commit(render(Cur("call")))
    /\ UNCHANGED <<options, buttonsIn, status, modelChanges>>

\* The host sets an attribute of the model: model.set(k, v).
ModelSet ==
    /\ status = "constructed"
    /\ modelChanges < MaxModelChanges
    /\ \E k \in Keys : \E v \in ModelValues(k) :
         /\ Get(model.attributes, k) # v \/ k \notin DOMAIN model.attributes
         /\ LET attrs == [j \in DOMAIN model.attributes \cup {k} |->
                            IF j = k THEN v ELSE model.attributes[j]]
                s == [Cur("set") EXCEPT !.model.attributes = attrs]
            IN  Commit(trigger(s))
    /\ modelChanges' = modelChanges + 1
    /\ UNCHANGED <<options, buttonsIn, status>>

\* The host removes an attribute of the model: model.unset(k).
ModelUnset ==
    /\ status = "constructed"
    /\ modelChanges < MaxModelChanges
    /\ \E k \in DOMAIN model.attributes :
         LET attrs == [j \in DOMAIN model.attributes \ {k} |->
                          model.attributes[j]]
             s == [Cur("unset") EXCEPT !.model.attributes = attrs]
         IN  Commit(trigger(s))
    /\ modelChanges' = modelChanges + 1
    /\ UNCHANGED <<options, buttonsIn, status>>

Next == Construct \/ Render \/ ModelSet \/ ModelUnset

Spec == Init /\ [][Next]_vars

\* The handler that ran last.
LastOp == IF trace = <<>> THEN "none" ELSE trace[1]

TypeOK ==
    /\ model \in Models
    /\ messageTpl \in Templates \cup {NoTpl}
    /\ el \in Handles
    /\ renderCount \in 0..MaxRenders
    /\ status \in {"unconstructed", "constructed", "failed"}

\* ============================================================== the claims

FlagKey == "is_eligible_for_subscription"

\* The handler that ran last was a render that wrote the mount point.
JustRendered == status = "constructed" /\ LastOp \in {"initialize", "call"}

\* The data the mount point's markup was rendered from.
MountData == dom[Mount][1].data

\* The object holds k with a value other than undefined.
Defines(obj, k) == Get(obj, k) # Undefined

\* C1: once initialize has run, the stored template is the subscription
\* template when options.is_eligible_for_subscription is true and the
\* standard upgrade template when it is false, whatever the model holds and
\* whatever the render data's field of the same name is.
C1_TemplateFollowsOption ==
    status # "unconstructed" =>
        /\ options.is_eligible_for_subscription = "true"
               => messageTpl = SubscriptionTpl
        /\ options.is_eligible_for_subscription = "false"
               => messageTpl = UpgradeTpl

\* The option says true while the model, and so the render data, say false.
C1_Witness ==
    /\ JustRendered
    /\ options.is_eligible_for_subscription = "true"
    /\ Get(model.attributes, FlagKey) = "false"
    /\ MountData[FlagKey] = "false"
    /\ messageTpl = SubscriptionTpl

\* C2 as stated: after render() the mount point holds exactly the selected
\* template applied to the render data, nothing of the earlier content; in
\* that data each of the four default keys has the model's value when the
\* key is one of the model's and the default (true, "active", "$39", 7)
\* otherwise, and every other key of the model is there with its value.
C2_AsStated ==
    JustRendered =>
        /\ Len(dom[Mount]) = 1
        /\ dom[Mount][1] = applyTpl(messageTpl, MountData, renderCount)
        /\ \A k \in DefaultKeys :
              MountData[k] =
                 IF k \in DOMAIN model.attributes THEN model.attributes[k]
                 ELSE CASE k = "is_eligible_for_subscription" -> "true"
                        [] k = "subscription_state" -> "'active'"
                        [] k = "subscription_price" -> "'$39'"
                        [] k = "trial_length" -> "7"
        /\ \A k \in DOMAIN model.attributes \ DefaultKeys :
              k \in DOMAIN MountData /\ MountData[k] = model.attributes[k]

\* C2, amended: after render() the mount point holds exactly the selected
\* template applied to the render data, nothing of the earlier content; in
\* that data each of the four default keys has the model's value when the
\* model holds the key with a value other than undefined and the default
\* (true, "active", "$39", 7) otherwise; every other key the model holds
\* with a value other than undefined is there with that value, and a key
\* the model holds as undefined is not in the data.
C2_RenderData ==
    JustRendered =>
        /\ Len(dom[Mount]) = 1
        /\ dom[Mount][1] = applyTpl(messageTpl, MountData, renderCount)
        /\ dom[Mount][1].tpl \in Templates
        /\ DOMAIN MountData =
              DefaultKeys \cup {k \in Keys : Defines(model.attributes, k)}
        /\ \A k \in DefaultKeys :
              MountData[k] =
                 IF Defines(model.attributes, k) THEN model.attributes[k]
                 ELSE CASE k = "is_eligible_for_subscription" -> "true"
                        [] k = "subscription_state" -> "'active'"
                        [] k = "subscription_price" -> "'$39'"
                        [] k = "trial_length" -> "7"
        /\ \A k \in Keys \ DefaultKeys :
              Defines(model.attributes, k) => MountData[k] = model.attributes[k]

\* A render() called after construction, over a model that overrides the
\* price, leaves the trial length to the default and has one more key.
C2_Witness ==
    /\ JustRendered
    /\ LastOp = "call"
    /\ Get(model.attributes, "subscription_price") = "'$99'"
    /\ "trial_length" \notin DOMAIN model.attributes
    /\ Get(model.attributes, "course_title") = "'Intro'"
    /\ MountData["subscription_price"] = "'$99'"
    /\ MountData["trial_length"] = "7"
    /\ MountData["course_title"] = "'Intro'"
    /\ dom[Mount][1].tpl = messageTpl

\* The upsell buttons of the markup that initialize's render wrote.
FirstRenderButtons ==
    {[gen |-> 1, idx |-> i] : i \in 1..buttonsIn[messageTpl]}

\* C3: after a successful construction whose markup has N upsell buttons
\* (N = 0 included), trackUpsellClick has been called exactly once, with
\* exactly those N elements, the category "program_dashboard_course" and the
\* context {linkType: "button", pageName: "program_dashboard",
\* linkCategory: "green_upgrade"}.
C3_TrackedOnce ==
    status = "constructed" =>
        /\ Len(tracked) = 1
        /\ tracked[1].elements = FirstRenderButtons
        /\ Cardinality(tracked[1].elements) = buttonsIn[messageTpl]
        /\ tracked[1].category = "program_dashboard_course"
        /\ tracked[1].context =
              [linkType |-> "button", pageName |-> "program_dashboard",
               linkCategory |-> "green_upgrade"]

\* A construction whose markup has no upsell button: one call, no element.
C3_Witness ==
    /\ status = "constructed"
    /\ buttonsIn[messageTpl] = 0
    /\ Len(tracked) = 1
    /\ tracked[1].elements = {}

\* C4: one initialize call runs, in this order and with nothing in between,
\* template selection, storing the mount point, the data merge, writing the
\* markup, the button query, the tracking registration; the query sees the
\* content this call's render wrote, never the mount point's earlier content.
C4_ConstructionOrder ==
    (status = "constructed" /\ LastOp = "initialize") =>
        /\ trace = <<"initialize", "template", "$el", "render", "extend",
                     "setHtml", "find", "trackUpsellClick">>
        /\ el = options.el
        /\ Len(tracked) = 1
        /\ tracked[1].elements = find(dom, Mount)
        /\ \A e \in tracked[1].elements : e.gen = 1
        /\ tracked[1].elements \cap ButtonsOf(Previous) = {}

\* The mount point held buttons before; the ones registered are the new ones.
C4_Witness ==
    /\ status = "constructed"
    /\ LastOp = "initialize"
    /\ ButtonsOf(Previous) # {}
    /\ tracked[1].elements = {[gen |-> 1, idx |-> 1]}

\* C5: a render() that follows a render (initialize's or a caller's) with
\* no change of the model in between leaves in the mount point the markup
\* that was there.
C5_RenderIdempotent ==
    [][(JustRendered /\ renderCount' = renderCount + 1)
          => Html(dom'[el']) = Html(dom[el])]_vars

\* Two render() calls on end after the construction, the model never changed.
C5_Witness ==
    /\ JustRendered
    /\ LastOp = "call"
    /\ renderCount = 3
    /\ modelChanges = 0
    /\ buttonsIn[messageTpl] > 0

\* C6: after construction the stored template is one of the two and no
\* render() and no change of the model replaces it; every later render
\* writes markup of that template.
C6_TemplateFixed ==
    [][status = "constructed" =>
          /\ messageTpl \in Templates
          /\ messageTpl' = messageTpl
          /\ renderCount' > renderCount => dom'[Mount][1].tpl = messageTpl]_vars

\* The model came to say false where the option said true, render() ran
\* again, and the subscription template is still the one in use.
C6_Witness ==
    /\ JustRendered
    /\ LastOp = "call"
    /\ modelChanges > 0
    /\ options.is_eligible_for_subscription = "true"
    /\ MountData[FlagKey] = "false"
    /\ messageTpl = SubscriptionTpl
    /\ dom[Mount][1].tpl = SubscriptionTpl

\* C7: a successful construction has run render exactly once, and a change
\* of the model runs no render: it leaves the document as it was.
C7_RendersOnceThenPassive ==
    [][/\ (status = "unconstructed" /\ status' = "constructed")
             => renderCount' = 1
       /\ model' # model => (dom' = dom /\ renderCount' = renderCount)]_vars

\* The model was changed after construction and the mount point still shows
\* the data of the one render.
C7_Witness ==
    /\ status = "constructed"
    /\ LastOp = "set"
    /\ renderCount = 1
    /\ Get(model.attributes, "subscription_price") = "'$99'"
    /\ MountData["subscription_price"] = "'$39'"

\* C8: with no model, the construction fails in render: the mount point
\* keeps the content it had, no button query is made and trackUpsellClick is
\* not called.
C8_AbsentModelFails ==
    (~model.defined /\ status # "unconstructed") =>
        /\ status = "failed"
        /\ trace = <<"initialize", "template", "$el", "render", "TypeError">>
        /\ dom[Mount] = <<Previous>>
        /\ dom[Detached] = <<>>
        /\ tracked = <<>>
        /\ \A i \in 1..Len(trace) : trace[i] \notin {"find", "trackUpsellClick"}

C8_Witness ==
    /\ ~model.defined
    /\ status = "failed"
    /\ renderCount = 1

\* C9 as stated: the option picks the template, and the render data's field
\* of the same name is the model's value when the model has the field and
\* true otherwise, whatever the option was.
C9_AsStated ==
    JustRendered =>
        /\ MountData[FlagKey] =
              IF FlagKey \in DOMAIN model.attributes
              THEN model.attributes[FlagKey] ELSE "true"
        /\ dom[Mount][1].tpl =
              IF options.is_eligible_for_subscription = "true"
              THEN SubscriptionTpl ELSE UpgradeTpl

\* C9, amended: the option picks the template and the render data's field
\* of the same name is the model's value when the model holds the field with
\* a value other than undefined and true otherwise, whatever the option was;
\* so with the option false and a model without the field, the standard
\* template is rendered over data whose field is true.
C9_FlagsIndependent ==
    JustRendered =>
        /\ MountData[FlagKey] =
              IF Defines(model.attributes, FlagKey)
              THEN model.attributes[FlagKey] ELSE "true"
        /\ dom[Mount][1].tpl =
              IF options.is_eligible_for_subscription = "true"
              THEN SubscriptionTpl ELSE UpgradeTpl

C9_Witness ==
    /\ JustRendered
    /\ options.is_eligible_for_subscription = "false"
    /\ FlagKey \notin DOMAIN model.attributes
    /\ dom[Mount][1].tpl = UpgradeTpl
    /\ MountData[FlagKey] = "true"

\* C10: a render() after construction changes the mount point's content
\* and nothing else: not the model, not the stored template, not the stored
\* mount point, not the content of another element; trackUpsellClick stays
\* called once, so the buttons the render made are not registered.
C10_RenderFrame ==
    [][(status = "constructed" /\ renderCount' = renderCount + 1) =>
          /\ model' = model
          /\ messageTpl' = messageTpl
          /\ el' = el
          /\ listeners' = listeners
          /\ \A h \in Handles \ {Mount} : dom'[h] = dom[h]
          /\ tracked' = tracked
          /\ Len(tracked') = 1
          /\ find(dom', Mount) \cap tracked'[1].elements = {}]_vars

\* A later render put a button in the mount point that tracking never saw.
C10_Witness ==
    /\ status = "constructed"
    /\ LastOp = "call"
    /\ renderCount = 2
    /\ find(dom, Mount) = {[gen |-> 2, idx |-> 1]}
    /\ tracked[1].elements = {[gen |-> 1, idx |-> 1]}
    /\ Len(tracked) = 1

====
